---- MODULE Spec2Model ----
(***************************************************************************)
(* Integrated web-search orchestrator (src/unnamed/part_010): planning,    *)
(* staged parallel search, continuation gate, reconciliation of sources    *)
(* and synthesis.                                                          *)
(*                                                                         *)
(* Conventions.                                                            *)
(*  - A stage name is modelled by the set of markers it contains; the only *)
(*    reads of stage_name that influence control are the two               *)
(*    String.includes tests of shouldExecuteNextStage.                     *)
(*  - JavaScript `undefined` is NoTopic / NoSummary / NoScore;       *)
(*    a stage object without a `queries` property has has_queries = FALSE. *)
(*  - Scores are integers (hundredths); the quality score is kept in       *)
(*    units of 1/QScale so that 0.3, 0.35, 0.4, 1/3 and 0.5 are exact.     *)
(***************************************************************************)
EXTENDS Integers, Sequences, FiniteSets, TLC

\* ------------------------------------------------------------------ bounds
MaxStages == 3
MaxQueries == 2
MaxLaterQueries == 1
MaxHistory == 2
MaxLimit == 10
MaxTopics == 2
MaxPerQuery == 2
MaxFound == 9

\* ------------------------------------------------------- program constants
StopTotal == 35
UnderCount == 5
Stage2Few == 15
Stage2Enough == 30
AvgThreshold == 5
DefaultLimit == 20
EarlyStopTotal == 40

\* quality score arithmetic, in units of 1/QScale
QScale == 600
W_Summary == 180
W_Diversity == 180
W_Average == 240
Q_Default == 300
Q_06 == 360
Q_07 == 420
Q_08 == 480

\* ------------------------------------------------------------- undefined
NoTopic == "undefined"
NoSummary == "undefined"
NoScore == -1

Stage2Marker == "dai2dankai"
Stage3Marker == "dai3dankai"
Mandatory == "hissu-jikko"
Conditional == "jokentsuki-jikko"

\* String.prototype.includes on a stage name
includes(stage_name, marker) == marker \in stage_name

\* truthiness of an optional string field (undefined and "" are falsy)
Truthy(s) == s # "undefined" /\ s # ""

\* ------------------------------------------------------- sequence helpers
RECURSIVE SumSeq(_)
SumSeq(s) == IF s = << >> THEN 0 ELSE Head(s) + SumSeq(Tail(s))

RECURSIVE ProdSeq(_)
ProdSeq(s) == IF s = << >> THEN 1 ELSE Head(s) * ProdSeq(Tail(s))

RECURSIVE Flatten(_)
Flatten(ss) == IF ss = << >> THEN << >> ELSE Head(ss) \o Flatten(Tail(ss))

Range(s) == {s[k] : k \in 1..Len(s)}

\* Array.prototype.filter
Filter(s, P(_)) == SelectSeq(s, P)

\* ------------------------------------------------------------------ types
\* SearchSource as seen before synthesis
Source(url, score, topic, text) ==
  [url |-> url, relevance_score |-> score, credibility_score |-> NoScore,
   target_topic |-> topic, search_query |-> text]

SearchQuery(text, topic) == [query |-> text, target_topic |-> topic]

SearchStage(name, queries, cond) ==
  [stage_name |-> name, has_queries |-> TRUE, queries |-> queries,
   execution_condition |-> cond]

\* a stage object of the parsed plan that has no `queries` property
StageWithoutQueries(name, cond) ==
  [stage_name |-> name, has_queries |-> FALSE, queries |-> << >>,
   execution_condition |-> cond]

\* results.length of one SearchResult (sources may be absent: every reader
\* uses `sources?.length || 0` or `if (result.sources)`, so absent = empty)
SourceCount(result) == Len(result.sources)

\* ------------------------------------------------- calculateQualityScore
totalOf(stageResults) ==
  SumSeq([k \in 1..Len(stageResults) |-> stageResults[k].total_sources])

summaryCount(stageResults) ==
  SumSeq([k \in 1..Len(stageResults) |->
            Len(Filter(stageResults[k].results, LAMBDA r : Truthy(r.summary)))])

queriesWithResults(stageResults) ==
  SumSeq([k \in 1..Len(stageResults) |->
            Len(Filter(stageResults[k].results, LAMBDA r : SourceCount(r) > 0))])

\* avgResultsPerQuery > 5, decided exactly: the sum of total_k / queryCount_k
\* over the stages (0 for a stage without queries) divided by the number of
\* stages, cross-multiplied by the product of the query counts.
avgAboveThreshold(stageResults) ==
  LET n == Len(stageResults)
      qc == [k \in 1..n |-> Len(stageResults[k].stage.queries)]
      den == [k \in 1..n |-> IF qc[k] > 0 THEN qc[k] ELSE 1]
      P == ProdSeq(den)
      num == SumSeq([k \in 1..n |->
                IF qc[k] > 0 THEN stageResults[k].total_sources * (P \div den[k])
                ELSE 0])
  IN  n > 0 /\ num > AvgThreshold * n * P

calculateQualityScore_sum(stageResults) ==
  (IF summaryCount(stageResults) > 0 THEN W_Summary ELSE 0)
  + (IF queriesWithResults(stageResults) > 1 THEN W_Diversity ELSE 0)
  + (IF avgAboveThreshold(stageResults) THEN W_Average ELSE 0)

calculateQualityScore(stageResults) ==
  LET f1 == summaryCount(stageResults) > 0
      f2 == queriesWithResults(stageResults) > 1
      f3 == avgAboveThreshold(stageResults)
      score == (IF f1 THEN W_Summary ELSE 0) + (IF f2 THEN W_Diversity ELSE 0)
               + (IF f3 THEN W_Average ELSE 0)
      factors == (IF f1 THEN 1 ELSE 0) + (IF f2 THEN 1 ELSE 0)
                 + (IF f3 THEN 1 ELSE 0)
  IN  IF factors > 0 THEN score \div factors ELSE Q_Default

\* ------------------------------------------------ calculateTopicCoverage
allSourcesOf(stageResults) ==
  Flatten([k \in 1..Len(stageResults) |->
             Flatten([j \in 1..Len(stageResults[k].results) |->
                        stageResults[k].results[j].sources])])

firstStageTopics(stageResults) ==
  IF Len(stageResults) > 0 /\ stageResults[1].stage.has_queries
  THEN {q.target_topic : q \in
          {x \in Range(stageResults[1].stage.queries) : Truthy(x.target_topic)}}
  ELSE {}

calculateTopicCoverage(stageResults) ==
  LET allSources == allSourcesOf(stageResults)
  IN  {[topic |-> t,
        count |-> Len(Filter(allSources, LAMBDA s : s.target_topic = t))]
         : t \in firstStageTopics(stageResults)}

\* ------------------------------------------------ shouldExecuteNextStage
enoughSources_gt(totalSources) == totalSources > StopTotal

enoughSources_never(totalSources) == FALSE

\* `if (totalSources >= 35) return false`
enoughSources(totalSources) == totalSources >= StopTotal

\* `topicCoverage.filter(t => t.count < 5)`
underrepresented(topicCoverage) == {t \in topicCoverage : t.count < UnderCount}

secondStageRule_onlyFew(totalSources, qualityScore, topicCoverage) ==
  IF underrepresented(topicCoverage) # {} THEN TRUE
  ELSE totalSources < Stage2Few

\* the rule for a stage whose name contains the second-stage marker
secondStageRule(totalSources, qualityScore, topicCoverage) ==
  IF underrepresented(topicCoverage) # {} THEN TRUE
  ELSE IF totalSources < Stage2Few THEN TRUE
  ELSE IF totalSources >= Stage2Enough /\ qualityScore > Q_07 THEN FALSE
  ELSE qualityScore < Q_06

thirdStageRule_strict(totalSources, qualityScore) ==
  totalSources < StopTotal /\ qualityScore < Q_Default

\* the rule for a stage whose name contains the third-stage marker
thirdStageRule(totalSources, qualityScore) ==
  totalSources < StopTotal /\ qualityScore < Q_08

shouldExecuteNextStage_noZeroRule(currentStageResults, nextStage) ==
  LET totalSources == totalOf(currentStageResults)
      qualityScore == calculateQualityScore(currentStageResults)
      topicCoverage == calculateTopicCoverage(currentStageResults)
  IN  IF enoughSources(totalSources) THEN FALSE
      ELSE IF includes(nextStage.stage_name, Stage2Marker)
           THEN secondStageRule(totalSources, qualityScore, topicCoverage)
      ELSE IF includes(nextStage.stage_name, Stage3Marker)
           THEN thirdStageRule(totalSources, qualityScore)
      ELSE FALSE

shouldExecuteNextStage(currentStageResults, nextStage) ==
  LET totalSources == totalOf(currentStageResults)
      qualityScore == calculateQualityScore(currentStageResults)
      topicCoverage == calculateTopicCoverage(currentStageResults)
  IN  IF totalSources = 0 THEN TRUE
      ELSE IF enoughSources(totalSources) THEN FALSE
      ELSE IF includes(nextStage.stage_name, Stage2Marker)
           THEN secondStageRule(totalSources, qualityScore, topicCoverage)
      ELSE IF includes(nextStage.stage_name, Stage3Marker)
           THEN thirdStageRule(totalSources, qualityScore)
      ELSE FALSE

\* --------------------------------------------------------- deduplication
\* generateIntegratedResponse: all sources of all stages in stage, result
\* and source order (the rewritten id and query_index fields are read by
\* nothing in this file and are left out)
collectAllSources(allResults) == allSourcesOf(allResults)

\* a Map whose entry is overwritten by every later copy of the url
RECURSIVE uniqueSources_overwrite(_, _)
uniqueSources_overwrite(allSources, seen) ==
  IF allSources = << >> THEN << >>
  ELSE IF Head(allSources).url \in seen
       THEN uniqueSources_overwrite(Tail(allSources), seen)
       ELSE LET copies == SelectSeq(allSources,
                                    LAMBDA x : x.url = Head(allSources).url)
            IN  <<copies[Len(copies)]>>
                \o uniqueSources_overwrite(Tail(allSources),
                                           seen \cup {Head(allSources).url})

\* Map keyed by url, `if (!uniqueSources.has(url)) set(url, source)`, then
\* Array.from(values()): insertion order, first copy of each url
RECURSIVE uniqueSources(_, _)
uniqueSources(allSources, seen) ==
  IF allSources = << >> THEN << >>
  ELSE IF Head(allSources).url \in seen
       THEN uniqueSources(Tail(allSources), seen)
       ELSE <<Head(allSources)>>
            \o uniqueSources(Tail(allSources), seen \cup {Head(allSources).url})

finalSourcesOf(allSources) == uniqueSources(allSources, {})

\* ------------------------------------------------- selectBalancedSources
\* Array.from(new Set(array)): first occurrences, in order
RECURSIVE DistinctSeq(_, _)
DistinctSeq(s, seen) ==
  IF s = << >> THEN << >>
  ELSE IF Head(s) \in seen THEN DistinctSeq(Tail(s), seen)
       ELSE <<Head(s)>> \o DistinctSeq(Tail(s), seen \cup {Head(s)})

\* Array.prototype.sort with comparator (a, b) => key(b) - key(a): stable,
\* descending.  The argument is a sequence of [key, val] pairs.
InsertDesc(sorted, x) ==
  LET pos == Cardinality({k \in 1..Len(sorted) : sorted[k].key >= x.key})
  IN  SubSeq(sorted, 1, pos) \o <<x>> \o SubSeq(sorted, pos + 1, Len(sorted))

RECURSIVE SortPairsDesc(_)
SortPairsDesc(s) ==
  IF s = << >> THEN << >>
  ELSE InsertDesc(SortPairsDesc(SubSeq(s, 1, Len(s) - 1)), s[Len(s)])

\* a.credibility_score || a.relevance_score
scoreOf(a) ==
  IF a.credibility_score # NoScore /\ a.credibility_score # 0
  THEN a.credibility_score ELSE a.relevance_score

sortByScore_unsorted(s) == s

sortByScore(s) ==
  LET keyed == SortPairsDesc([k \in 1..Len(s) |-> [key |-> scoreOf(s[k]), val |-> s[k]]])
  IN  [k \in 1..Len(s) |-> keyed[k].val]

sortByRelevance_unsorted(s) == s

sortByRelevance(s) ==
  LET keyed == SortPairsDesc([k \in 1..Len(s) |->
                                [key |-> s[k].relevance_score, val |-> s[k]]])
  IN  [k \in 1..Len(s) |-> keyed[k].val]

\* Array.prototype.slice(0, n)
Slice(s, n) == SubSeq(s, 1, IF n < Len(s) THEN n ELSE Len(s))

\* topics named by the queries, `filter(t => t !== undefined)`
topicsOf(queries) ==
  DistinctSeq(SelectSeq([k \in 1..Len(queries) |-> queries[k].target_topic],
                        LAMBDA t : t # NoTopic), {})

totalGuaranteed_all(limit) == limit

\* Math.floor(limit * 0.7)
totalGuaranteed(limit) == (limit * 7) \div 10

\* Math.ceil(totalGuaranteed * weight), weight in hundredths
weightedQuota(tg, weight) == (tg * weight + 99) \div 100

\* Math.ceil(totalGuaranteed / Math.max(topics.length, 1))
evenQuota(tg, n) == LET m == IF n > 1 THEN n ELSE 1 IN (tg + m - 1) \div m

\* the topicQuotas map: a function from the topics that have an entry
\* (later entries of topicAnalysis overwrite earlier ones with the same name)
topicQuotas(topics, limit, topicAnalysis) ==
  LET tg == totalGuaranteed(limit)
  IN  IF Len(topicAnalysis) > 0
      THEN [t \in {topicAnalysis[k].topic : k \in 1..Len(topicAnalysis)} |->
              LET last == CHOOSE k \in 1..Len(topicAnalysis) :
                            /\ topicAnalysis[k].topic = t
                            /\ \A j \in (k + 1)..Len(topicAnalysis) :
                                 topicAnalysis[j].topic # t
              IN  weightedQuota(tg, topicAnalysis[last].weight)]
      ELSE [t \in Range(topics) |-> evenQuota(tg, Len(topics))]

\* topicQuotas.get(topic) || 2
quotaFor(quotas, topic) ==
  IF topic \in DOMAIN quotas /\ quotas[topic] # 0 THEN quotas[topic] ELSE 2

matchesTopic_any(s, topic, queries) == TRUE

\* the filter of phase 1: tagged with the topic, or found by a query of it
matchesTopic(s, topic, queries) ==
  \/ s.target_topic = topic
  \/ \E k \in 1..Len(queries) :
       queries[k].target_topic = topic /\ s.search_query = queries[k].query

topicSourcesOf(sources, topic, queries, usedUrls, quota) ==
  Slice(sortByScore(SelectSeq(sources,
          LAMBDA s : matchesTopic(s, topic, queries) /\ s.url \notin usedUrls)),
        quota)

pushUpTo_unbounded(selected, candidates, limit) == selected \o candidates

\* push while selected.length < limit
RECURSIVE pushUpTo(_, _, _)
pushUpTo(selected, candidates, limit) ==
  IF candidates = << >> \/ Len(selected) >= limit THEN selected
  ELSE pushUpTo(Append(selected, Head(candidates)), Tail(candidates), limit)

\* phase 1, one iteration per topic; `groups` records what each iteration
\* pushed (not a value of the program, kept to state the per-topic order)
RECURSIVE guaranteedPhase(_, _, _, _, _, _)
guaranteedPhase(topics, sources, queries, limit, quotas, acc) ==
  IF topics = << >> THEN acc
  ELSE LET topic == Head(topics)
           cand == topicSourcesOf(sources, topic, queries, acc.usedUrls,
                                  quotaFor(quotas, topic))
           sel == pushUpTo(acc.selected, cand, limit)
           pushed == SubSeq(sel, Len(acc.selected) + 1, Len(sel))
       IN  guaranteedPhase(Tail(topics), sources, queries, limit, quotas,
             [selected |-> sel,
              usedUrls |-> acc.usedUrls \cup {pushed[k].url : k \in 1..Len(pushed)},
              groups |-> Append(acc.groups, pushed)])

guaranteedOf(sources, queries, limit, topicAnalysis) ==
  LET topics == topicsOf(queries)
  IN  guaranteedPhase(topics, sources, queries, limit,
                      topicQuotas(topics, limit, topicAnalysis),
                      [selected |-> << >>, usedUrls |-> {}, groups |-> << >>])

selectBalancedSources(sources, queries, limit, topicAnalysis) ==
  LET g == guaranteedOf(sources, queries, limit, topicAnalysis)
      remaining == sortByRelevance(SelectSeq(sources,
                                     LAMBDA s : s.url \notin g.usedUrls))
  IN  pushUpTo(g.selected, remaining, limit)

\* ------------------------------------------------------------------ state
VARIABLES
  message,           \* POST: the `message` of the request body
  pc,                \* position of the request in POST/performIntegratedSearch
  searchPlan,        \* performIntegratedSearch: searchPlan
  i,                 \* the loop index (0-based, as in the code)
  stageResults,      \* performIntegratedSearch: stageResults
  calls,             \* executeSearchStage: the promises of the current stage
  limit,             \* selectBalancedSources: limit (20 at the only call)
  finalSources,      \* generateIntegratedResponse: finalSources
  quotas,            \* selectBalancedSources: topicQuotas
  topSources,        \* generateIntegratedResponse: topSources
  response,          \* the returned answer text
  evaluatedSources,  \* the returned sources
  nextStage,         \* shouldExecuteNextStage: its nextStage argument
  decision,          \* shouldExecuteNextStage: the value it returned
  sent,              \* the external calls issued so far, in order of issue
  aborted            \* POST: req.signal.aborted, the client has gone (never read)

vars == <<message, pc, searchPlan, i, stageResults, calls, limit,
          finalSources, quotas, topSources, response, evaluatedSources,
          nextStage, decision, sent, aborted>>

\* the values reconciliation works on and produces
reconVars == <<limit, finalSources, quotas, topSources>>

TopicA == "A"
TopicB == "B"
TopicC == "C"

NoPlan == [identified_topics |-> << >>, stages |-> << >>]
NoStage == SearchStage({}, << >>, Conditional)
NoDecision == "none"

\* ---------------------------------------------- planComprehensiveSearch
\* the fallback plan of the catch block: one stage, one query (the raw
\* question, no target_topic), no question_analysis
fallbackPlan(query) ==
  [identified_topics |-> << >>,
   stages |-> <<SearchStage({}, <<SearchQuery(query, NoTopic)>>, Mandatory)>>]

\* What the planning call can end in.  "callFails": send or the decoding of
\* the body throws; "noJson": the text has no {...}; "badJson": JSON.parse
\* throws; "noStages": the object has no `stages`, so plan.stages.length
\* throws; "parsed": any other object, returned as it is.
PlanOutcomes == {"callFails", "noJson", "badJson", "noStages", "parsed"}

planComprehensiveSearch(query, outcome, parsed) ==
  IF outcome = "parsed" THEN parsed ELSE fallbackPlan(query)

\* ---------------------------------------------- executeSearchWithLambda
\* What one backend call can end in: "fails" (send or a JSON.parse throws),
\* "noBody" (a payload without response body), or "ok" with the decoded
\* searchData (summary and sources).
tagSources(sources, query) ==
  [k \in 1..Len(sources) |->
     [sources[k] EXCEPT !.search_query = query.query,
                        !.target_topic = query.target_topic]]

emptyResult(query) ==
  [query |-> query.query, summary |-> NoSummary, sources |-> << >>]

executeSearchWithLambda_dropsUntagged(query, outcome) ==
  IF outcome.kind = "ok" /\ query.target_topic # NoTopic
  THEN [query |-> outcome.query, summary |-> outcome.summary,
        sources |-> tagSources(outcome.sources, query)]
  ELSE emptyResult(query)

executeSearchWithLambda(query, outcome) ==
  IF outcome.kind = "ok"
  THEN [query |-> outcome.query, summary |-> outcome.summary,
        sources |-> tagSources(outcome.sources, query)]
  ELSE emptyResult(query)

\* ---------------------------------------------------- executeSearchStage
allSettled_any(cs) == \E k \in 1..Len(cs) : cs[k].status = "done"

\* Promise.all over the promises of the stage
allSettled(cs) == \A k \in 1..Len(cs) : cs[k].status = "done"

stageTotal(results) ==
  SumSeq([k \in 1..Len(results) |-> SourceCount(results[k])])

stageResultOf(stage, cs) ==
  LET results == [k \in 1..Len(cs) |-> cs[k].result]
  IN  [stage |-> stage, results |-> results, total_sources |-> stageTotal(results)]

\* ------------------------------------------------------ the environment
\* the retrieval backend: the r-th hit of a query.  The first hit is the same
\* page for every query, so that different queries return duplicate urls.
backendUrl(text, r) ==
  IF r = 1 THEN [site |-> {".gov"}, page |-> "top"]
  ELSE [site |-> IF r % 2 = 0 THEN {"blog"} ELSE {},
        page |-> text \o "-" \o ToString(r)]

backendSources(text, n) ==
  [r \in 1..n |-> Source(backendUrl(text, r), 100 - 5 * r, NoTopic, NoTopic)]

NoOutcome == [kind |-> "none", query |-> "", summary |-> NoSummary, sources |-> << >>]
failsOutcome == [NoOutcome EXCEPT !.kind = "fails"]
noBodyOutcome == [NoOutcome EXCEPT !.kind = "noBody"]
okOutcome(text, n, summary) ==
  [kind |-> "ok", query |-> text, summary |-> summary,
   sources |-> backendSources(text, n)]

\* sizes and summaries of the successful answers of the backend
AnswerShapes == {<<0, NoSummary>>, <<5, "text">>, <<18, NoSummary>>}

BackendOutcomes(query) ==
  {failsOutcome, noBodyOutcome}
    \cup {okOutcome(query.query, sh[1], sh[2]) : sh \in AnswerShapes}

\* the plans the planning model can answer with
queryText(idx, k) == "s" \o ToString(idx) \o "q" \o ToString(k)

patternTopic(pat, k) ==
  CASE pat = "cycle" -> (IF k % 2 = 1 THEN TopicA ELSE TopicB)
    [] pat = "none" -> NoTopic
    [] pat = "orphan" -> TopicC

queriesOf(idx, n, pat) ==
  [k \in 1..n |-> SearchQuery(queryText(idx, k), patternTopic(pat, k))]

FirstStages ==
  {SearchStage({}, queriesOf(1, n, pat), Mandatory) :
       n \in 1..MaxQueries, pat \in {"cycle", "none"}}
    \cup {SearchStage({}, queriesOf(1, 1, "cycle"), Conditional),
          SearchStage({}, << >>, Mandatory),
          StageWithoutQueries({}, Mandatory)}

LaterKinds ==
  {<<{Stage2Marker}, Conditional>>, <<{Stage3Marker}, Conditional>>,
   <<{}, Conditional>>, <<{}, Mandatory>>}

LaterStages(idx) ==
  {SearchStage(kind[1], queriesOf(idx, n, pat), kind[2]) :
       kind \in LaterKinds, n \in 1..MaxLaterQueries, pat \in {"cycle", "orphan"}}

RECURSIVE StageLists(_)
StageLists(n) ==
  IF n = 0 THEN {<< >>}
  ELSE IF n = 1 THEN {<<st>> : st \in FirstStages}
  ELSE {Append(ss, st) : ss \in StageLists(n - 1), st \in LaterStages(n)}

TopicLists ==
  {<< >>, <<[topic |-> TopicA, weight |-> 50], [topic |-> TopicB, weight |-> 50]>>}

ParsedPlans ==
  {[identified_topics |-> ts, stages |-> ss] :
       ts \in TopicLists, ss \in UNION {StageLists(n) : n \in 0..MaxStages}}

\* ---------------------------------------------------------------- Init
NoCalls == << >>

\* the entries of `sent`: the two model calls, and a backend call under the
\* text of its query
PlanningCall == "planning model"
SynthesisCall == "synthesis model"

issueAll_twice(queries) ==
  [k \in 1..(2 * Len(queries)) |-> queries[((k - 1) % Len(queries)) + 1].query]

\* stage.queries.map(query => executeSearchWithLambda(query)): one call per
\* query, in query order
issueAll(queries) == [k \in 1..Len(queries) |-> queries[k].query]

Init ==
  /\ message \in {"", "question"}
  /\ pc = "start"
  /\ searchPlan = NoPlan
  /\ i = 0
  /\ stageResults = << >>
  /\ calls = NoCalls
  /\ limit = DefaultLimit
  /\ finalSources = << >>
  /\ quotas = << >>
  /\ topSources = << >>
  /\ response = ""
  /\ evaluatedSources = << >>
  /\ nextStage = NoStage
  /\ decision = NoDecision
  /\ sent = << >>
  /\ aborted = FALSE

\* ------------------------------------------------------------------ POST
\* `if (!message) return 400`
RejectEmpty ==
  /\ pc = "start" /\ message = ""
  /\ pc' = "badRequest"
  /\ UNCHANGED <<sent, message, aborted, searchPlan, i, stageResults, calls, reconVars,
                 response, evaluatedSources, nextStage, decision>>

\* performIntegratedSearch is entered and the planning call is issued
StartPlanning ==
  /\ pc = "start" /\ message # ""
  /\ pc' = "planning"
  /\ sent' = Append(sent, PlanningCall)
  /\ UNCHANGED <<message, aborted, searchPlan, i, stageResults, calls, reconVars,
                 response, evaluatedSources, nextStage, decision>>

\* ----------------------------------------------- performIntegratedSearch
\* the planning call returns or fails; the loop starts with i = 0
PlanReturns ==
  /\ pc = "planning"
  /\ \E outcome \in PlanOutcomes :
       \E parsed \in (IF outcome = "parsed" THEN ParsedPlans ELSE {NoPlan}) :
         searchPlan' = planComprehensiveSearch(message, outcome, parsed)
  /\ i' = 0
  /\ stageResults' = << >>
  /\ pc' = "loop"
  /\ UNCHANGED <<sent, message, aborted, calls, reconVars, response, evaluatedSources,
                 nextStage, decision>>

SkipStage_breaks ==
  /\ pc = "loop" /\ i < Len(searchPlan.stages)
  /\ i > 0
  /\ ~ shouldExecuteNextStage(stageResults, searchPlan.stages[i + 1])
  /\ nextStage' = searchPlan.stages[i + 1]
  /\ decision' = FALSE
  /\ i' = i
  /\ pc' = "synthDelay"
  /\ UNCHANGED <<sent, message, aborted, searchPlan, stageResults, calls, reconVars,
                 response, evaluatedSources>>

\* `if (i > 0 && !shouldExecuteNextStage(...)) continue`
SkipStage ==
  /\ pc = "loop" /\ i < Len(searchPlan.stages)
  /\ i > 0
  /\ ~ shouldExecuteNextStage(stageResults, searchPlan.stages[i + 1])
  /\ nextStage' = searchPlan.stages[i + 1]
  /\ decision' = FALSE
  /\ i' = i + 1
  /\ UNCHANGED <<sent, message, aborted, pc, searchPlan, stageResults, calls, reconVars,
                 response, evaluatedSources>>

\* executeSearchStage up to `await Promise.all`: every call of the stage is
\* issued by the map before the function first awaits
StartStage ==
  /\ pc = "loop" /\ i < Len(searchPlan.stages)
  /\ i = 0 \/ shouldExecuteNextStage(stageResults, searchPlan.stages[i + 1])
  /\ searchPlan.stages[i + 1].has_queries
  /\ IF i > 0
     THEN nextStage' = searchPlan.stages[i + 1] /\ decision' = TRUE
     ELSE UNCHANGED <<nextStage, decision>>
  /\ calls' = [k \in 1..Len(searchPlan.stages[i + 1].queries) |->
                 [status |-> "pending", outcome |-> NoOutcome,
                  result |-> emptyResult(searchPlan.stages[i + 1].queries[k])]]
  /\ pc' = "stage"
  /\ sent' = sent \o issueAll(searchPlan.stages[i + 1].queries)
  /\ UNCHANGED <<message, aborted, searchPlan, i, stageResults, reconVars, response,
                 evaluatedSources>>

\* stage.queries.length of a stage without queries throws; nothing in
\* performIntegratedSearch catches it and POST answers with status 500
StageThrows ==
  /\ pc = "loop" /\ i < Len(searchPlan.stages)
  /\ i = 0 \/ shouldExecuteNextStage(stageResults, searchPlan.stages[i + 1])
  /\ ~ searchPlan.stages[i + 1].has_queries
  /\ IF i > 0
     THEN nextStage' = searchPlan.stages[i + 1] /\ decision' = TRUE
     ELSE UNCHANGED <<nextStage, decision>>
  /\ pc' = "error"
  /\ UNCHANGED <<sent, message, aborted, searchPlan, i, stageResults, calls, reconVars,
                 response, evaluatedSources>>

\* one backend call of the current stage returns or fails
BackendReturns ==
  /\ pc = "stage"
  /\ \E k \in 1..Len(calls) :
       /\ calls[k].status = "pending"
       /\ \E outcome \in BackendOutcomes(searchPlan.stages[i + 1].queries[k]) :
            calls' = [calls EXCEPT ![k] =
                        [status |-> "done", outcome |-> outcome,
                         result |-> executeSearchWithLambda(
                                      searchPlan.stages[i + 1].queries[k], outcome)]]
  /\ UNCHANGED <<sent, message, aborted, pc, searchPlan, i, stageResults, reconVars, response,
                 evaluatedSources, nextStage, decision>>

\* Promise.all resolves; the StageResult is pushed; the stop test
\* `totalSources >= 40 && qualityScore > 0.7` breaks out of the loop
earlyStop(results) ==
  totalOf(results) >= EarlyStopTotal /\ calculateQualityScore(results) > Q_07

StageCompletes_replaces ==
  /\ pc = "stage"
  /\ allSettled(calls)
  /\ LET pushed == <<stageResultOf(searchPlan.stages[i + 1], calls)>>
     IN  /\ stageResults' = pushed
         /\ IF earlyStop(pushed)
            THEN i' = i /\ pc' = "synthDelay"
            ELSE i' = i + 1 /\ pc' = "loop"
  /\ UNCHANGED <<sent, message, aborted, searchPlan, calls, reconVars, response,
                 evaluatedSources, nextStage, decision>>

StageCompletes_noAwait ==
  /\ pc = "stage"
  /\ LET pushed == Append(stageResults, stageResultOf(searchPlan.stages[i + 1], calls))
     IN  /\ stageResults' = pushed
         /\ IF earlyStop(pushed)
            THEN i' = i /\ pc' = "synthDelay"
            ELSE i' = i + 1 /\ pc' = "loop"
  /\ UNCHANGED <<sent, message, aborted, searchPlan, calls, reconVars, response,
                 evaluatedSources, nextStage, decision>>

StageCompletes ==
  /\ pc = "stage"
  /\ allSettled(calls)
  /\ LET pushed == Append(stageResults, stageResultOf(searchPlan.stages[i + 1], calls))
     IN  /\ stageResults' = pushed
         /\ IF earlyStop(pushed)
            THEN i' = i /\ pc' = "synthDelay"
            ELSE i' = i + 1 /\ pc' = "loop"
  /\ UNCHANGED <<sent, message, aborted, searchPlan, calls, reconVars, response,
                 evaluatedSources, nextStage, decision>>

\* the loop ends; generateIntegratedResponse is entered and awaits delay(2000)
LoopEnds ==
  /\ pc = "loop" /\ i >= Len(searchPlan.stages)
  /\ pc' = "synthDelay"
  /\ UNCHANGED <<sent, message, aborted, searchPlan, i, stageResults, calls, reconVars,
                 response, evaluatedSources, nextStage, decision>>

\* --------------------------------------------- generateIntegratedResponse
\* `searchPlan?.stages[0]?.queries || allResults[0]?.stage?.queries || []`
firstQueries(plan, allResults) ==
  IF Len(plan.stages) > 0 /\ plan.stages[1].has_queries THEN plan.stages[1].queries
  ELSE IF Len(allResults) > 0 /\ allResults[1].stage.has_queries
       THEN allResults[1].stage.queries
  ELSE << >>

\* the deduplication and the call of selectBalancedSources
Reconciled(plan, allResults) ==
  /\ finalSources' = finalSourcesOf(collectAllSources(allResults))
  /\ quotas' = topicQuotas(topicsOf(firstQueries(plan, allResults)), limit,
                           plan.identified_topics)
  /\ topSources' = selectBalancedSources(
                     finalSourcesOf(collectAllSources(allResults)),
                     firstQueries(plan, allResults), limit,
                     plan.identified_topics)
  /\ limit' = limit

\* after the delay: the sources are merged, deduplicated and selected, the
\* prompt is built and the synthesis call is issued
SynthesisStarts ==
  /\ pc = "synthDelay"
  /\ Reconciled(searchPlan, stageResults)
  /\ pc' = "synthesis"
  /\ sent' = Append(sent, SynthesisCall)
  /\ UNCHANGED <<message, aborted, searchPlan, i, stageResults, calls, response,
                 evaluatedSources, nextStage, decision>>

\* estimateCredibility: the first url pattern that matches decides
urlIncludes(url, patterns) == url.site \cap patterns # {}

estimateCredibility(source) ==
  IF urlIncludes(source.url, {".gov", ".edu", "official"}) THEN 90
  ELSE IF urlIncludes(source.url, {"nature.com", "science.", "ieee"}) THEN 85
  ELSE IF urlIncludes(source.url, {"bbc.com", "reuters", "ap.org"}) THEN 80
  ELSE IF urlIncludes(source.url, {"nikkei", "bloomberg", "wsj"}) THEN 75
  ELSE IF urlIncludes(source.url, {"blog", "medium"}) THEN 40
  ELSE IF urlIncludes(source.url, {"wikipedia"}) THEN 60
  ELSE 50

\* an annotated source (is_primary_source, source_type and
\* credibility_reasoning are carried along by the code and read by no
\* decision; they are left out)
annotated(source, index, credibility) ==
  [url |-> source.url, relevance_score |-> source.relevance_score,
   credibility_score |-> credibility, target_topic |-> source.target_topic,
   search_query |-> source.search_query, citationNumber |-> index]

ruleBased(sources) ==
  [k \in 1..Len(sources) |-> annotated(sources[k], k, estimateCredibility(sources[k]))]

\* evaluations.find(e => e.index === index + 1)
mergeEvaluations(sources, evaluations) ==
  [k \in 1..Len(sources) |->
     IF \E e \in 1..Len(evaluations) : evaluations[e].index = k
     THEN LET first == CHOOSE e \in 1..Len(evaluations) :
                         /\ evaluations[e].index = k
                         /\ \A d \in 1..(e - 1) : evaluations[d].index # k
          IN  annotated(sources[k], k, evaluations[first].credibility_score)
     ELSE annotated(sources[k], k, estimateCredibility(sources[k]))]

\* What the synthesis call can end in.  "callFails": send or the decoding
\* throws; "noContent": the body has no content; "noBlock": the text has no
\* fenced json block; "badBlock": the block does not parse; "notArray": it
\* parses to a value without `find`; "array": it parses to an array.
SynthesisOutcomes ==
  {"callFails", "noContent", "noBlock", "badBlock", "notArray", "array"}

\* the evaluation arrays the model can write for n rendered sources
EvaluationLists(n) ==
  {<< >>,
   <<[index |-> 1, credibility_score |-> 70]>>,
   <<[index |-> 1, credibility_score |-> NoScore]>>,
   [k \in 1..n |-> [index |-> k, credibility_score |-> 70]]}

Apology == "apology"
AnswerText == "answer"

SynthesisReturns ==
  /\ pc = "synthesis"
  /\ \E outcome \in SynthesisOutcomes :
       \E evaluations \in (IF outcome = "array"
                           THEN EvaluationLists(Len(topSources)) ELSE {<< >>}) :
         IF outcome \in {"callFails", "noContent"}
         THEN response' = Apology /\ evaluatedSources' = << >>
         ELSE /\ response' = AnswerText
              /\ evaluatedSources' =
                   IF outcome = "array" THEN mergeEvaluations(topSources, evaluations)
                   ELSE ruleBased(topSources)
  /\ pc' = "done"
  /\ UNCHANGED <<sent, message, aborted, searchPlan, i, stageResults, calls, reconVars,
                 nextStage, decision>>

Next ==
  \/ RejectEmpty
  \/ StartPlanning
  \/ PlanReturns
  \/ SkipStage
  \/ StartStage
  \/ StageThrows
  \/ BackendReturns
  \/ StageCompletes
  \/ LoopEnds
  \/ SynthesisStarts
  \/ SynthesisReturns

Spec == Init /\ [][Next]_vars

\* ===================================================================
\* The continuation gate as a function: every history of at most MaxHistory
\* stage results that executeSearchStage can build, every kind of next stage
\* ===================================================================
GateShapes ==
  {<<n, sm>> : n \in {0, UnderCount - 1, UnderCount, 17, 18},
               sm \in {NoSummary, "text"}}

\* the StageResults a stage can end with
RECURSIVE OutcomeLists(_, _, _)
OutcomeLists(queries, k, shapes) ==
  IF k = 0 THEN {<< >>}
  ELSE {Append(os, okOutcome(queries[k].query, sh[1], sh[2])) :
          os \in OutcomeLists(queries, k - 1, shapes), sh \in shapes}

settledCalls(stage, outcomes) ==
  [k \in 1..Len(outcomes) |->
     [status |-> "done", outcome |-> outcomes[k],
      result |-> executeSearchWithLambda(stage.queries[k], outcomes[k])]]

StageResultsOf(stage, shapes) ==
  {stageResultOf(stage, settledCalls(stage, os)) :
     os \in OutcomeLists(stage.queries, Len(stage.queries), shapes)}

GateFirstStages ==
  {SearchStage({}, queriesOf(1, n, "cycle"), Mandatory) : n \in 1..MaxQueries}
    \cup {SearchStage({}, queriesOf(1, 1, "none"), Mandatory)}

GateLaterStages(idx) ==
  {SearchStage({Stage2Marker}, queriesOf(idx, n, pat), Conditional) :
     n \in 1..MaxLaterQueries, pat \in {"cycle", "orphan"}}

RECURSIVE GateHistories(_)
GateHistories(n) ==
  IF n = 1
  THEN {<<sr>> : sr \in UNION {StageResultsOf(st, GateShapes) : st \in GateFirstStages}}
  ELSE {Append(h, sr) :
          h \in GateHistories(n - 1),
          sr \in UNION {StageResultsOf(st, GateShapes) : st \in GateLaterStages(n)}}

GateNextStages ==
  {SearchStage(name, queriesOf(MaxHistory + 1, 1, "cycle"), Conditional) :
     name \in SUBSET {Stage2Marker, Stage3Marker}}

InitGate ==
  /\ message = "question"
  /\ pc = "gate"
  /\ searchPlan = NoPlan
  /\ i = 0
  /\ stageResults \in UNION {GateHistories(n) : n \in 1..MaxHistory}
  /\ calls = NoCalls
  /\ limit = DefaultLimit
  /\ finalSources = << >>
  /\ quotas = << >>
  /\ topSources = << >>
  /\ response = ""
  /\ evaluatedSources = << >>
  /\ nextStage = NoStage
  /\ decision = NoDecision
  /\ sent = << >>
  /\ aborted = FALSE

EvaluateGate ==
  /\ pc = "gate"
  /\ \E st \in GateNextStages :
       /\ nextStage' = st
       /\ decision' = shouldExecuteNextStage(stageResults, st)
  /\ pc' = "gateDone"
  /\ UNCHANGED <<sent, message, aborted, searchPlan, i, stageResults, calls, reconVars,
                 response, evaluatedSources>>

NextGate == EvaluateGate

SpecGate == InitGate /\ [][NextGate]_vars

underCovered(history) == underrepresented(calculateTopicCoverage(history)) # {}

\* C1: whenever the accumulated total of sources is at least 35 the gate
\* answers false, for every next-stage name, quality score and coverage; a
\* total of 34 does not force the stop: with 34 sources and an under-covered
\* topic a stage carrying the second-stage marker is still executed.
C1_StopAtThirtyFive ==
  pc = "gateDone" =>
    /\ totalOf(stageResults) >= 35 => decision = FALSE
    /\ ( /\ totalOf(stageResults) = 34
         /\ underCovered(stageResults)
         /\ includes(nextStage.stage_name, Stage2Marker) ) => decision = TRUE

C1_Witness ==
  /\ pc = "gateDone"
  /\ totalOf(stageResults) = 35
  /\ underCovered(stageResults)
  /\ includes(nextStage.stage_name, Stage2Marker)
  /\ decision = FALSE

C1_Witness34 ==
  /\ pc = "gateDone"
  /\ totalOf(stageResults) = 34
  /\ underCovered(stageResults)
  /\ includes(nextStage.stage_name, Stage2Marker)
  /\ decision = TRUE

\* ===================================================================
\* Properties of a run of the orchestrator (Spec)
\* ===================================================================
Last(seq) == seq[Len(seq)]

planReturned == pc \notin {"start", "badRequest", "planning", "gate", "gateDone"}
afterLoop == pc \in {"synthDelay", "synthesis", "done"}
executed(stage) == \E j \in 1..Len(stageResults) : stageResults[j].stage = stage
inFlight == \E k \in 1..Len(calls) : calls[k].status = "pending"

\* C2: in every run, every planned stage whose execution condition is
\* mandatory has been executed when the stage loop is over, at any position
\* of the plan.
C2_MandatoryStagesRun ==
  afterLoop =>
    \A k \in 1..Len(searchPlan.stages) :
      searchPlan.stages[k].execution_condition = Mandatory
        => executed(searchPlan.stages[k])

\* C3: for every plan the planner returns, at least one stage has been
\* executed when synthesis starts, and the first planned stage is the first
\* executed one.
C3_FirstStageAlwaysRuns ==
  afterLoop =>
    /\ Len(stageResults) >= 1
    /\ stageResults[1].stage = searchPlan.stages[1]

\* C5: for a non-empty question and every outcome of the planning call the
\* returned plan has at least one topic and at least one stage, and its
\* first stage is marked mandatory.
C5_PlanTotality ==
  planReturned =>
    /\ Len(searchPlan.identified_topics) >= 1
    /\ Len(searchPlan.stages) >= 1
    /\ searchPlan.stages[1].execution_condition = Mandatory

\* the sources of a result without the two tags executeSearchWithLambda adds
untagged(sources) ==
  [k \in 1..Len(sources) |->
     [sources[k] EXCEPT !.search_query = NoTopic, !.target_topic = NoTopic]]

succeeded(call) == call.outcome.kind = "ok"

\* C6: no failure of a sub-query makes the stage fail; in the StageResult
\* of the stage that completed last, a failed query has an empty source
\* list, a successful one has exactly the sources the backend returned for
\* it, and total_sources is the sum over the successful queries only.
C6_FanOutIsolation ==
  /\ pc = "error" => ~ searchPlan.stages[i + 1].has_queries
  /\ (pc \in {"loop", "synthDelay", "synthesis", "done"} /\ Len(stageResults) > 0) =>
       LET sr == Last(stageResults)
       IN  /\ Len(sr.results) = Len(sr.stage.queries)
           /\ Len(calls) = Len(sr.stage.queries)
           /\ \A k \in 1..Len(calls) :
                IF succeeded(calls[k])
                THEN untagged(sr.results[k].sources) = calls[k].outcome.sources
                ELSE sr.results[k].sources = << >>
           /\ sr.total_sources =
                SumSeq([k \in 1..Len(calls) |->
                          IF succeeded(calls[k]) THEN Len(calls[k].outcome.sources)
                          ELSE 0])

C6_Witness ==
  /\ pc = "loop" /\ Len(stageResults) > 0
  /\ \E k \in 1..Len(calls) : calls[k].outcome.kind = "fails"
  /\ \E k \in 1..Len(calls) :
       succeeded(calls[k]) /\ calls[k].outcome.sources # << >>

\* C7: every call of a stage is issued when the stage starts; while a call
\* is in flight no StageResult is pushed, no gate is evaluated, the loop
\* index does not move and the request stays in the stage; the pushed
\* StageResult holds, at position k, the result of the k-th query.
C7_Step ==
  /\ (pc = "loop" /\ pc' = "stage") =>
        /\ Len(calls') = Len(searchPlan.stages[i + 1].queries)
        /\ \A k \in 1..Len(calls') : calls'[k].status = "pending"
  /\ inFlight =>
        /\ pc' = "stage"
        /\ stageResults' = stageResults
        /\ i' = i
        /\ nextStage' = nextStage /\ decision' = decision
  /\ Len(stageResults') > Len(stageResults) =>
        LET sr == Last(stageResults')
        IN  /\ ~ inFlight
            /\ Len(sr.results) = Len(sr.stage.queries)
            /\ \A k \in 1..Len(sr.results) :
                 sr.results[k] =
                   executeSearchWithLambda(sr.stage.queries[k], calls[k].outcome)

C7_FanInWaitsForAll == [][C7_Step]_vars

C7_Witness ==
  /\ pc = "stage" /\ Len(calls) >= 2
  /\ calls[1].status = "pending"
  /\ calls[2].status = "done" /\ succeeded(calls[2])

\* C4 as stated: with a total strictly between 0 and 35 and an under-covered
\* stage-1 topic the gate answers true for every next stage, whatever its
\* name.
C4_CoverageBeforeStageRules ==
  ( /\ pc = "gateDone"
    /\ totalOf(stageResults) > 0 /\ totalOf(stageResults) < 35
    /\ underCovered(stageResults) ) => decision = TRUE

\* C4 amended: with a total strictly between 0 and 35 and an under-covered
\* stage-1 topic the gate answers true for every next stage whose name
\* carries the second-stage or the third-stage marker, whatever the quality
\* score is, and false for a stage whose name carries neither: the coverage
\* rule belongs to the second-stage rule and does not precede the stage-type
\* rules.
C4_CoverageWithinStageRules ==
  ( /\ pc = "gateDone"
    /\ totalOf(stageResults) > 0 /\ totalOf(stageResults) < 35
    /\ underCovered(stageResults) ) =>
      decision = ( \/ includes(nextStage.stage_name, Stage2Marker)
                   \/ includes(nextStage.stage_name, Stage3Marker) )

C4_Witness ==
  /\ pc = "gateDone"
  /\ totalOf(stageResults) >= 30 /\ totalOf(stageResults) < 35
  /\ underCovered(stageResults)
  /\ includes(nextStage.stage_name, Stage3Marker)
  /\ ~ includes(nextStage.stage_name, Stage2Marker)
  /\ summaryCount(stageResults) > 0
  /\ queriesWithResults(stageResults) > 1
  /\ avgAboveThreshold(stageResults)
  /\ decision = TRUE

\* ===================================================================
\* Reconciliation as a function: deduplication and selectBalancedSources
\* applied to a plan, a history and a limit, and applied a second time to
\* the same arguments
\* ===================================================================
Reconcile ==
  /\ pc = "reconcile"
  /\ Reconciled(searchPlan, stageResults)
  /\ pc' = "reconciled"
  /\ UNCHANGED <<sent, message, aborted, searchPlan, i, stageResults, calls, response,
                 evaluatedSources, nextStage, decision>>

ReconcileAgain ==
  /\ pc = "reconciled"
  /\ Reconciled(searchPlan, stageResults)
  /\ pc' = "reconciledAgain"
  /\ UNCHANGED <<sent, message, aborted, searchPlan, i, stageResults, calls, response,
                 evaluatedSources, nextStage, decision>>

NextReconcile == Reconcile \/ ReconcileAgain

reconciledNow == pc \in {"reconciled", "reconciledAgain"}

\* ---- the quotas: every limit up to MaxLimit and the default limit, every
\* list of at most MaxTopics topics with weights (in hundredths) of WeightSet
WeightSet == {0, 10, 33, 34, 50, 100}

topicName(k) == IF k = 1 THEN TopicA ELSE IF k = 2 THEN TopicB
                ELSE "T" \o ToString(k)

RECURSIVE WeightedTopicLists(_)
WeightedTopicLists(n) ==
  IF n = 0 THEN {<< >>}
  ELSE {Append(ts, [topic |-> topicName(n), weight |-> w]) :
          ts \in WeightedTopicLists(n - 1), w \in WeightSet}

oneQueryPerTopic(n) ==
  [k \in 1..n |-> SearchQuery(queryText(1, k), topicName(k))]

\* a history of one stage in which every query found `n` sources
plainHistory(stage, n) ==
  <<stageResultOf(stage, settledCalls(stage,
      [k \in 1..Len(stage.queries) |-> okOutcome(stage.queries[k].query, n, NoSummary)]))>>

InitQuota ==
  /\ message = "question"
  /\ pc = "reconcile"
  /\ \E n \in 1..MaxTopics :
       \E ts \in WeightedTopicLists(n) :
         /\ searchPlan = [identified_topics |-> ts,
                          stages |-> <<SearchStage({}, oneQueryPerTopic(n), Mandatory)>>]
         /\ stageResults = plainHistory(searchPlan.stages[1], 2)
  /\ i = 1
  /\ calls = NoCalls
  /\ limit \in (1..MaxLimit) \cup {DefaultLimit}
  /\ finalSources = << >>
  /\ quotas = << >>
  /\ topSources = << >>
  /\ response = ""
  /\ evaluatedSources = << >>
  /\ nextStage = NoStage
  /\ decision = NoDecision
  /\ sent = << >>
  /\ aborted = FALSE

SpecQuota == InitQuota /\ [][NextReconcile]_vars

RECURSIVE SumOver(_, _)
SumOver(f, S) ==
  IF S = {} THEN 0
  ELSE LET x == CHOOSE y \in S : TRUE IN f[x] + SumOver(f, S \ {x})

\* ceil(0.7 * L) and floor(0.7 * L)
ceilSeventy(L) == (7 * L + 9) \div 10
floorSeventy(L) == (7 * L) \div 10

weightSum(ts) == SumSeq([k \in 1..Len(ts) |-> ts[k].weight])

\* C8 as stated: the guaranteed quotas sum to at most ceil(0.7*L) and none
\* exceeds ceil(0.7*L).
C8_QuotaConservation ==
  reconciledNow =>
    /\ SumOver(quotas, DOMAIN quotas) <= ceilSeventy(limit)
    /\ \A t \in DOMAIN quotas : quotas[t] <= ceilSeventy(limit)

\* C8 amended: no topic's guaranteed quota exceeds ceil(0.7*L): it is
\* floor(0.7*L)*w rounded up; the quotas of n topics whose weights sum to W
\* sum to less than floor(0.7*L)*W + n, which may exceed ceil(0.7*L).
C8_QuotaBounds ==
  reconciledNow =>
    LET ts == searchPlan.identified_topics
    IN  /\ DOMAIN quotas = {ts[k].topic : k \in 1..Len(ts)}
        /\ \A k \in 1..Len(ts) :
             /\ quotas[ts[k].topic] <= ceilSeventy(limit)
             /\ 100 * quotas[ts[k].topic] >= floorSeventy(limit) * ts[k].weight
             /\ 100 * quotas[ts[k].topic] < floorSeventy(limit) * ts[k].weight + 100
        /\ 100 * SumOver(quotas, DOMAIN quotas)
             < floorSeventy(limit) * weightSum(ts) + 100 * Len(ts)

C8_Witness ==
  /\ reconciledNow
  /\ limit = 10
  /\ Len(searchPlan.identified_topics) = 2
  /\ searchPlan.identified_topics[1].weight = 50
  /\ searchPlan.identified_topics[2].weight = 50
  /\ SumOver(quotas, DOMAIN quotas) = 8

\* ---- deduplication and selection: every history of one stage with two
\* queries, each answered with at most MaxPerQuery sources over PoolUrls
PoolUrls ==
  {[site |-> {".gov"}, page |-> "u1"], [site |-> {"blog"}, page |-> "u2"],
   [site |-> {}, page |-> "u3"]}
PoolScores == {40, 80}

RECURSIVE PoolLists(_)
PoolLists(n) ==
  IF n = 0 THEN {<< >>}
  ELSE PoolLists(n - 1)
       \cup {Append(p, Source(u, sc, NoTopic, NoTopic)) :
               p \in {q \in PoolLists(n - 1) : Len(q) = n - 1},
               u \in PoolUrls, sc \in PoolScores}

poolOutcome(text, sources) ==
  [kind |-> "ok", query |-> text, summary |-> NoSummary, sources |-> sources]

PoolStage == SearchStage({}, queriesOf(1, 2, "cycle"), Mandatory)

\* one stage that asks for both topics
PoolHistories ==
  {<<stageResultOf(PoolStage, settledCalls(PoolStage,
       <<poolOutcome(PoolStage.queries[1].query, p1),
         poolOutcome(PoolStage.queries[2].query, p2)>>))>> :
     p1 \in PoolLists(MaxPerQuery), p2 \in PoolLists(MaxPerQuery)}

\* a first stage that asks for the first topic only and a second stage that
\* asks for the second topic
PoolFirstOnly == SearchStage({}, queriesOf(1, 1, "cycle"), Mandatory)
PoolSecond ==
  SearchStage({Stage2Marker}, <<SearchQuery(queryText(2, 1), TopicB)>>, Conditional)

PoolHistoriesTwoStages ==
  {<<stageResultOf(PoolFirstOnly, settledCalls(PoolFirstOnly,
       <<poolOutcome(PoolFirstOnly.queries[1].query, p1)>>)),
     stageResultOf(PoolSecond, settledCalls(PoolSecond,
       <<poolOutcome(PoolSecond.queries[1].query, p2)>>))>> :
     p1 \in PoolLists(MaxPerQuery), p2 \in PoolLists(MaxPerQuery)}

InitReconcile ==
  /\ message = "question"
  /\ pc = "reconcile"
  /\ \E ts \in TopicLists :
       \/ /\ searchPlan = [identified_topics |-> ts, stages |-> <<PoolStage>>]
          /\ stageResults \in PoolHistories
       \/ /\ searchPlan = [identified_topics |-> ts,
                           stages |-> <<PoolFirstOnly, PoolSecond>>]
          /\ stageResults \in PoolHistoriesTwoStages
  /\ i = Len(searchPlan.stages)
  /\ calls = NoCalls
  /\ limit \in {1, 2, DefaultLimit}
  /\ finalSources = << >>
  /\ quotas = << >>
  /\ topSources = << >>
  /\ response = ""
  /\ evaluatedSources = << >>
  /\ nextStage = NoStage
  /\ decision = NoDecision
  /\ sent = << >>
  /\ aborted = FALSE

SpecReconcile == InitReconcile /\ [][NextReconcile]_vars

urlsOf(sources) == {sources[k].url : k \in 1..Len(sources)}
distinctUrls(sources) == Cardinality(urlsOf(sources)) = Len(sources)
copiesOf(sources, url) == {k \in 1..Len(sources) : sources[k].url = url}

\* C9 as stated: of the copies of a url the one with the highest relevance
\* score is kept, and exactly one copy per url.
C9_KeepsBestCopy ==
  reconciledNow =>
    LET all == allSourcesOf(stageResults)
    IN  /\ distinctUrls(finalSources)
        /\ urlsOf(finalSources) = urlsOf(all)
        /\ \A m \in 1..Len(finalSources) :
             \A k \in copiesOf(all, finalSources[m].url) :
               finalSources[m].relevance_score >= all[k].relevance_score

\* C9 amended: of the copies of a url the first one met in stage, query and
\* result order is kept, whatever its score, and exactly one copy per url;
\* the kept copies stay in the order in which they were met.
C9_KeepsFirstCopy ==
  reconciledNow =>
    LET all == allSourcesOf(stageResults)
        first == {k \in 1..Len(all) : \A j \in 1..(k - 1) : all[j].url # all[k].url}
    IN  /\ distinctUrls(finalSources)
        /\ Len(finalSources) = Cardinality(first)
        /\ \A m \in 1..Len(finalSources) :
             \E k \in first :
               /\ finalSources[m] = all[k]
               /\ Cardinality({j \in first : j < k}) = m - 1

C9_Witness ==
  /\ reconciledNow
  /\ \E m \in 1..Len(finalSources) :
       \E k \in copiesOf(allSourcesOf(stageResults), finalSources[m].url) :
         allSourcesOf(stageResults)[k].relevance_score
           > finalSources[m].relevance_score

sortedDescending(group) ==
  \A a, b \in 1..Len(group) : a < b => scoreOf(group[a]) >= scoreOf(group[b])

\* C10: on a history whose sources have pairwise distinct urls the
\* deduplication removes nothing; the sources selected for each topic in the
\* guaranteed phase open the selection, topic after topic, each group in
\* descending order of score; a second run on the same arguments returns
\* the same sources in the same order.
C10_Step ==
  ( /\ pc' \in {"reconciled", "reconciledAgain"}
    /\ distinctUrls(allSourcesOf(stageResults)) ) =>
      LET groups == guaranteedOf(finalSources', firstQueries(searchPlan, stageResults),
                                 limit, searchPlan.identified_topics).groups
          opening == Flatten(groups)
      IN  /\ stageResults' = stageResults /\ searchPlan' = searchPlan
          /\ finalSources' = allSourcesOf(stageResults)
          /\ \A g \in 1..Len(groups) : sortedDescending(groups[g])
          /\ Len(opening) <= Len(topSources')
          /\ SubSeq(topSources', 1, Len(opening)) = opening
          /\ pc = "reconciled" =>
               topSources' = topSources /\ finalSources' = finalSources

taggedWith(sources, topic) ==
  Cardinality({k \in 1..Len(sources) : sources[k].target_topic = topic})

\* C11: for every history, topic list and limit, selectBalancedSources
\* returns at most `limit` sources, no two of them with the same url, and
\* every one of them a source of the deduplicated pool.
C11_SelectionBounded ==
  reconciledNow =>
    /\ Len(topSources) <= limit
    /\ distinctUrls(topSources)
    /\ Range(topSources) \subseteq Range(finalSources)

C11_Witness ==
  /\ reconciledNow
  /\ Len(allSourcesOf(stageResults)) > Len(finalSources)
  /\ Len(finalSources) > limit
  /\ Len(topSources) = limit

Min(a, b) == IF a < b THEN a ELSE b

\* C12: for every topic T of the plan's topic list, with the quota q(T) of
\* the quota map and a(T) sources tagged T in the deduplicated pool, the
\* selection holds at least min(q(T), a(T)) sources tagged T.
C12_GuaranteedSlots ==
  reconciledNow =>
    \A k \in 1..Len(searchPlan.identified_topics) :
      LET T == searchPlan.identified_topics[k].topic
      IN  taggedWith(topSources, T)
            >= Min(quotas[T], taggedWith(finalSources, T))

\* ===================================================================
\* The two-topic scenario: two topics of weight 0.5, limit 10.  The query of
\* the first topic finds 3 or MaxFound pages of its own; the query of the
\* second topic finds 3 or 4 pages, its own or pages the first query found
\* too, scored below or above the pages of the first topic.
\* ===================================================================
scenarioUrl(tag, r) == [site |-> {}, page |-> tag \o ToString(r)]

RECURSIVE InjectiveSeqs(_, _)
InjectiveSeqs(S, n) ==
  IF n = 0 THEN {<< >>}
  ELSE UNION {{Append(q, x) : x \in S \ Range(q)} : q \in InjectiveSeqs(S, n - 1)}

ScenarioTopics ==
  <<[topic |-> TopicA, weight |-> 50], [topic |-> TopicB, weight |-> 50]>>

firstFinds(n) ==
  [r \in 1..n |-> Source(scenarioUrl("a", r), 90 - r, NoTopic, NoTopic)]

SecondUrls ==
  {scenarioUrl("b", r) : r \in 1..4} \cup {scenarioUrl("a", r) : r \in 1..2}

secondFinds(urls, base) ==
  [r \in 1..Len(urls) |-> Source(urls[r], base - r, NoTopic, NoTopic)]

ScenarioQueryA == SearchQuery(queryText(1, 1), TopicA)
ScenarioQueryB == SearchQuery(queryText(1, 2), TopicB)

oneStageHistory(stage, finds) ==
  stageResultOf(stage, settledCalls(stage,
    [k \in 1..Len(finds) |-> poolOutcome(stage.queries[k].query, finds[k])]))

\* the stage lists: both topics in the first stage, in either order, or the
\* second topic asked for by the second stage only
ScenarioStageLists ==
  {<<SearchStage({}, <<ScenarioQueryA, ScenarioQueryB>>, Mandatory)>>,
   <<SearchStage({}, <<ScenarioQueryB, ScenarioQueryA>>, Mandatory)>>,
   <<SearchStage({}, <<ScenarioQueryA>>, Mandatory),
     SearchStage({Stage2Marker}, <<ScenarioQueryB>>, Conditional)>>}

scenarioHistory(stages, fa, fb) ==
  IF Len(stages) = 2
  THEN <<oneStageHistory(stages[1], <<fa>>), oneStageHistory(stages[2], <<fb>>)>>
  ELSE <<oneStageHistory(stages[1],
           IF stages[1].queries[1] = ScenarioQueryA THEN <<fa, fb>> ELSE <<fb, fa>>)>>

InitScenario ==
  /\ message = "question"
  /\ pc = "reconcile"
  /\ \E stages \in ScenarioStageLists :
       \E n \in {3, MaxFound} :
         \E urls \in InjectiveSeqs(SecondUrls, 3) \cup InjectiveSeqs(SecondUrls, 4) :
           \E base \in {30, 99} :
             /\ searchPlan = [identified_topics |-> ScenarioTopics, stages |-> stages]
             /\ stageResults =
                  scenarioHistory(stages, firstFinds(n), secondFinds(urls, base))
  /\ i = Len(searchPlan.stages)
  /\ calls = NoCalls
  /\ limit = 10
  /\ finalSources = << >>
  /\ quotas = << >>
  /\ topSources = << >>
  /\ response = ""
  /\ evaluatedSources = << >>
  /\ nextStage = NoStage
  /\ decision = NoDecision
  /\ sent = << >>
  /\ aborted = FALSE

SpecScenario == InitScenario /\ [][NextReconcile]_vars

C14_SynthesisFallbackTotal ==
  (pc = "done" /\ response = AnswerText) =>
    /\ Len(evaluatedSources) = Len(topSources)
    /\ \A k \in 1..Len(topSources) :
         /\ evaluatedSources[k].url = topSources[k].url
         /\ evaluatedSources[k].credibility_score # NoScore

\* C15: performIntegratedSearch never raises, whatever the planning call,
\* the backend calls and the synthesis call end in.
C15_NeverRaises == pc # "error"

\* a backend call is issued by this step
callIssued ==
  \E k \in 1..Len(calls') :
    /\ calls'[k].status = "pending"
    /\ k > Len(calls) \/ calls[k].status # "pending"

\* C16: no backend call exists before the planning call has returned; the
\* calls of a stage are issued only when no call is in flight and the result
\* of every stage executed before has been pushed, and they are the calls of
\* one stage, the one the loop index points at; the synthesis call is issued
\* only when no call is in flight and the loop is over.
C16_Step ==
  /\ pc \in {"start", "planning"} => calls = NoCalls /\ calls' = NoCalls
  /\ callIssued =>
       /\ pc = "loop" /\ planReturned
       /\ ~ inFlight
       /\ i < Len(searchPlan.stages)
       /\ \A j \in 1..Len(stageResults) :
            \E m \in 1..i : stageResults[j].stage = searchPlan.stages[m]
       /\ Len(calls') = Len(searchPlan.stages[i + 1].queries)
       /\ \A k \in 1..Len(calls') :
            calls'[k].result.query = searchPlan.stages[i + 1].queries[k].query
  /\ (pc # "synthesis" /\ pc' = "synthesis") =>
       /\ pc = "synthDelay"
       /\ ~ inFlight
       /\ stageResults' = stageResults
       /\ Len(calls) > 0 =>
            Last(stageResults).results = [k \in 1..Len(calls) |-> calls[k].result]
  /\ inFlight => pc' \notin {"planning", "synthDelay", "synthesis", "done"}

C16_StrictOrdering == [][C16_Step]_vars

C16_Witness ==
  /\ pc = "synthesis"
  /\ Len(stageResults) >= 2
  /\ Len(calls) >= 1
  /\ searchPlan.stages[1].queries # << >>

\* C17: every step either leaves the history as it is or appends to it the
\* result of the stage that just completed, the stage the loop index points
\* at; the loop index never decreases, so the entries are in the order in
\* which their stages were executed.
C17_Step ==
  /\ \/ stageResults' = stageResults
     \/ /\ pc = "stage"
        /\ Len(stageResults') = Len(stageResults) + 1
        /\ SubSeq(stageResults', 1, Len(stageResults)) = stageResults
        /\ Last(stageResults') = stageResultOf(searchPlan.stages[i + 1], calls)
  /\ i' >= i
  /\ pc \notin {"stage"} => stageResults' = stageResults

C17_HistoryAppendOnly == [][C17_Step]_vars

C17_Witness ==
  /\ pc = "done"
  /\ Len(stageResults) = 2
  /\ Len(searchPlan.stages) = 3
  /\ stageResults[1].stage = searchPlan.stages[1]
  /\ stageResults[2].stage = searchPlan.stages[3]
  /\ Len(topSources) > 0

listedTopics(plan) ==
  {plan.identified_topics[k].topic : k \in 1..Len(plan.identified_topics)}

\* C18: every query of an executed stage whose target topic is set names a
\* topic of the plan's topic list, and a query of a stage after the first
\* names a topic that a query of the first stage names.
C18_NoOrphanTopics ==
  \A j \in 1..Len(stageResults) :
    \A k \in 1..Len(stageResults[j].stage.queries) :
      LET topic == stageResults[j].stage.queries[k].target_topic
      IN  Truthy(topic) =>
            /\ topic \in listedTopics(searchPlan)
            /\ j > 1 => topic \in firstStageTopics(stageResults)

countIn(seq, x) == Cardinality({k \in 1..Len(seq) : seq[k] = x})

plannedTexts(plan) ==
  UNION {{plan.stages[m].queries[k].query : k \in 1..Len(plan.stages[m].queries)}
           : m \in 1..Len(plan.stages)}

\* C19: at most one planning call and at most one synthesis call are
\* issued; a query of a stage that was executed or is being executed has
\* caused exactly one backend call, whatever the call ended in, and a query
\* of any other stage none; no other call is issued.
C19_ExactlyOneCall ==
  /\ countIn(sent, PlanningCall) <= 1
  /\ countIn(sent, SynthesisCall) <= 1
  /\ Range(sent) \subseteq {PlanningCall, SynthesisCall} \cup plannedTexts(searchPlan)
  /\ \A m \in 1..Len(searchPlan.stages) :
       \A k \in 1..Len(searchPlan.stages[m].queries) :
         countIn(sent, searchPlan.stages[m].queries[k].query) =
           IF executed(searchPlan.stages[m]) \/ (pc = "stage" /\ m = i + 1)
           THEN 1 ELSE 0

C19_Witness ==
  /\ pc = "done"
  /\ Len(stageResults) < Len(searchPlan.stages)
  /\ \E k \in 1..Len(calls) : calls[k].outcome.kind = "fails"
  /\ response = Apology
  /\ countIn(sent, PlanningCall) = 1
  /\ countIn(sent, SynthesisCall) = 1

\* ---- termination
\* the steps that wait for an external call or for nothing at all
AwaitedSteps ==
  \/ RejectEmpty
  \/ StartPlanning
  \/ PlanReturns
  \/ SkipStage
  \/ StartStage
  \/ StageThrows
  \/ BackendReturns
  \/ StageCompletes
  \/ LoopEnds
  \/ SynthesisReturns

\* every external call eventually returns or fails and the request keeps
\* running until it has answered; the timer of delay(2000) fires, so that the
\* request does not stay at the delay for ever
SpecLive ==
  /\ Init /\ [][Next]_vars
  /\ WF_vars(AwaitedSteps)
  /\ []<>(pc # "synthDelay")

\* C20: every run eventually returns a result (the answer, or the rejection
\* of an empty message); at no time have more stages been executed than were
\* planned, and no planned stage has been executed twice.
C20_Terminates ==
  /\ <>(pc \in {"done", "badRequest"})
  /\ [](/\ Len(stageResults) <= Len(searchPlan.stages)
        /\ \A a, b \in 1..Len(stageResults) :
             a < b => stageResults[a].stage # stageResults[b].stage)

\* ===================================================================
\* The gate inside a run (Spec) and as a function (SpecGate)
\* ===================================================================
\* the gate has been evaluated at least once in this run
gateEvaluated == nextStage # NoStage

\* C21: a gate that answered false saw a total above 0; as long as the
\* accumulated total is 0 no planned stage has been skipped: in the loop,
\* the history has one entry for every stage the loop index has passed.
C21_ZeroTotalContinues ==
  /\ (gateEvaluated /\ decision = FALSE) => totalOf(stageResults) > 0
  /\ (pc = "loop" /\ totalOf(stageResults) = 0) => Len(stageResults) = i

C21_Witness ==
  /\ pc = "stage" /\ i = 2
  /\ totalOf(stageResults) = 0
  /\ Len(stageResults) = 2
  /\ stageResults[2].stage.stage_name = {}
  /\ nextStage.stage_name = {}
  /\ decision = TRUE


queriesIssued(history) ==
  SumSeq([k \in 1..Len(history) |-> Len(history[k].stage.queries)])

\* C24: the quality score is the sum of 0.3 for a non-empty summary, 0.3 for
\* more than one productive query and 0.4 * min(1, avg / 5), where avg is the
\* total of sources divided by the number of queries issued over the history
\* (both sides multiplied by 5 times the number of queries).
C24_ThreeSignalSum ==
  (pc = "gateDone" /\ queriesIssued(stageResults) > 0) =>
    calculateQualityScore(stageResults) * AvgThreshold * queriesIssued(stageResults)
      = ( (IF summaryCount(stageResults) > 0 THEN W_Summary ELSE 0)
          + (IF queriesWithResults(stageResults) > 1 THEN W_Diversity ELSE 0) )
          * AvgThreshold * queriesIssued(stageResults)
        + W_Average * Min(AvgThreshold * queriesIssued(stageResults),
                          totalOf(stageResults))


\* ===================================================================
\* The fill phase of selectBalancedSources
\* ===================================================================
\* what the guaranteed phase selected from the deduplicated pool
guaranteedNow ==
  guaranteedOf(finalSources, firstQueries(searchPlan, stageResults), limit,
               searchPlan.identified_topics).selected

leftOut == Range(finalSources) \ Range(topSources)

\* C25: the selection opens with the guaranteed picks and holds exactly
\* min(limit, size of the deduplicated pool) sources; the sources after the
\* guaranteed picks are in descending order of relevance, whatever their
\* topic, and no source left out has a higher relevance than one of them.
C25_FillByRelevance ==
  reconciledNow =>
    LET n == Len(guaranteedNow)
    IN  /\ Len(topSources) = Min(limit, Len(finalSources))
        /\ n <= Len(topSources)
        /\ SubSeq(topSources, 1, n) = guaranteedNow
        /\ \A a, b \in (n + 1)..Len(topSources) :
             a < b => topSources[a].relevance_score >= topSources[b].relevance_score
        /\ \A k \in (n + 1)..Len(topSources) :
             \A s \in leftOut : s.relevance_score <= topSources[k].relevance_score

C25_Witness ==
  /\ reconciledNow
  /\ Len(topSources) = limit
  /\ Len(guaranteedNow) < Len(topSources)
  /\ \E a, b \in 1..Len(finalSources) :
       /\ a < b
       /\ finalSources[a] \in leftOut
       /\ finalSources[b] = topSources[Len(topSources)]
       /\ finalSources[a].relevance_score < finalSources[b].relevance_score
       /\ finalSources[a].target_topic # finalSources[b].target_topic


\* ===================================================================
\* Cancellation: the request with a client that may disconnect
\* ===================================================================
\* the client disconnects while the request is being served: the abort
\* signal of `req` fires; POST and performIntegratedSearch never read it
ClientDisconnects ==
  /\ pc \in {"planning", "loop", "stage", "synthDelay", "synthesis"}
  /\ ~ aborted
  /\ aborted' = TRUE
  /\ UNCHANGED <<sent, message, pc, searchPlan, i, stageResults, calls, reconVars,
                 response, evaluatedSources, nextStage, decision>>

NextCancel ==
  \/ RejectEmpty
  \/ StartPlanning
  \/ PlanReturns
  \/ SkipStage
  \/ StartStage
  \/ StageThrows
  \/ BackendReturns
  \/ StageCompletes
  \/ LoopEnds
  \/ SynthesisStarts
  \/ SynthesisReturns
  \/ ClientDisconnects

SpecCancel == Init /\ [][NextCancel]_vars

\* C26: once the request is cancelled no further external call is issued
\* (no sub-query of a new stage, no synthesis call) and the loop passes no
\* further stage by a decision of the gate.
C26_Step ==
  aborted =>
    /\ sent' = sent
    /\ i' = i \/ pc = "stage"

C26_NoWorkAfterCancel == [][C26_Step]_vars


\* ===================================================================
\* The ceiling of the quality score and what it does to the gate
\* ===================================================================
satisfiedSignals(history) ==
  (IF summaryCount(history) > 0 THEN 1 ELSE 0)
  + (IF queriesWithResults(history) > 1 THEN 1 ELSE 0)
  + (IF avgAboveThreshold(history) THEN 1 ELSE 0)

satisfiedWeights(history) ==
  (IF summaryCount(history) > 0 THEN W_Summary ELSE 0)
  + (IF queriesWithResults(history) > 1 THEN W_Diversity ELSE 0)
  + (IF avgAboveThreshold(history) THEN W_Average ELSE 0)

\* C27: for every non-empty history of a run the quality score times the
\* number of satisfied signals is the sum of their weights, and it is 0.5
\* when no signal is satisfied; it never exceeds 0.5, so it is never above
\* 0.7 and the early stop after a stage (total >= 40 and quality > 0.7)
\* never applies.
C27_QualityCeiling ==
  Len(stageResults) > 0 =>
    /\ satisfiedSignals(stageResults) > 0 =>
         calculateQualityScore(stageResults) * satisfiedSignals(stageResults)
           = satisfiedWeights(stageResults)
    /\ satisfiedSignals(stageResults) = 0 =>
         calculateQualityScore(stageResults) = Q_Default
    /\ calculateQualityScore(stageResults) <= Q_Default
    /\ ~ (calculateQualityScore(stageResults) > Q_07)
    /\ ~ earlyStop(stageResults)

C27_Witness ==
  /\ pc = "loop"
  /\ i < Len(searchPlan.stages)
  /\ totalOf(stageResults) >= EarlyStopTotal
  /\ satisfiedSignals(stageResults) = 3


hasStageMarker(stage) ==
  includes(stage.stage_name, Stage2Marker) \/ includes(stage.stage_name, Stage3Marker)

\* C28: for a next stage whose name carries the second-stage or the
\* third-stage marker the gate answers true exactly when the accumulated
\* total is below 35, for every history: neither the quality score nor the
\* coverage of the topics changes the answer.
C28_MarkedStageRunsBelowThirtyFive ==
  (pc = "gateDone" /\ hasStageMarker(nextStage)) =>
    decision = (totalOf(stageResults) < 35)

C28_Witness ==
  /\ pc = "gateDone"
  /\ includes(nextStage.stage_name, Stage2Marker)
  /\ totalOf(stageResults) >= 30 /\ totalOf(stageResults) < 35
  /\ ~ underCovered(stageResults)
  /\ satisfiedSignals(stageResults) = 3
  /\ decision = TRUE


\* ===================================================================
\* The loop over the planned stages (Spec)
\* ===================================================================
\* C29: the accumulated total never decreases, and from a history of 35 or
\* more sources no planned stage is entered: the history stays as it is and
\* no call is issued for a stage.
C29_Step ==
  /\ totalOf(stageResults') >= totalOf(stageResults)
  /\ (planReturned /\ totalOf(stageResults) >= 35) =>
       /\ ~ (pc = "loop" /\ pc' \in {"stage", "error"})
       /\ stageResults' = stageResults
       /\ calls' = calls

C29_NoStageAfterThirtyFive == [][C29_Step]_vars

C29_Witness ==
  /\ pc = "loop"
  /\ i = Len(searchPlan.stages)
  /\ Len(stageResults) = 1
  /\ totalOf(stageResults) >= 35
  /\ Len(searchPlan.stages) = 3
  /\ includes(searchPlan.stages[2].stage_name, Stage2Marker)
  /\ includes(searchPlan.stages[3].stage_name, Stage3Marker)
  /\ nextStage = searchPlan.stages[3]
  /\ decision = FALSE


executedStages == [k \in 1..Len(stageResults) |-> stageResults[k].stage]

\* `a` is `b` with some elements left out
RECURSIVE isSubsequence(_, _)
isSubsequence(a, b) ==
  IF a = << >> THEN TRUE
  ELSE IF b = << >> THEN FALSE
  ELSE IF Head(a) = Head(b) THEN isSubsequence(Tail(a), Tail(b))
  ELSE isSubsequence(a, Tail(b))

\* C30: a planned stage that is not entered is passed and the loop goes on
\* with the next one against the same history; the executed stages are, in
\* order, a subsequence of the planned stages, and when a stage has been
\* executed the first of them is the first planned stage.
C30_Step ==
  /\ ( /\ pc = "loop" /\ i < Len(searchPlan.stages)
       /\ pc' \notin {"stage", "error"} ) =>
         /\ pc' = "loop" /\ i' = i + 1
         /\ stageResults' = stageResults
  /\ planReturned' =>
       /\ isSubsequence(executedStages', searchPlan'.stages)
       /\ Len(stageResults') > 0 => executedStages'[1] = searchPlan'.stages[1]

C30_SkipContinues == [][C30_Step]_vars

C30_Witness ==
  /\ pc = "stage" /\ i = 2
  /\ Len(searchPlan.stages) = 3
  /\ Len(stageResults) = 1
  /\ totalOf(stageResults) > 0
  /\ searchPlan.stages[2].stage_name = {}
  /\ includes(searchPlan.stages[3].stage_name, Stage3Marker)
  /\ nextStage = searchPlan.stages[3]
  /\ decision = TRUE

====
